---- MODULE Spec2Model ----
(***************************************************************************)
(* Model of util/angular/http-helper.ts: the static factory HttpHelper and *)
(* the fluent builder HttpRequest, together with the calls the builder     *)
(* makes on the injected HttpClient and the notifications the returned     *)
(* Observable delivers to the subscribed callbacks.                        *)
(***************************************************************************)
EXTENDS Integers, Sequences, FiniteSets, TLC

(***************************************************************************)
(* Bounds of the model.                                                    *)
(***************************************************************************)
\* header()/contentType()/param() calls made on the builder
MaxConfigCalls == 2
\* handle() calls made on the builder
MaxHandles == 2

(***************************************************************************)
(* JavaScript values.  A string is its sequence of characters.  An object  *)
(* is its own enumerable properties and the enumerable properties it       *)
(* inherits, each a sequence of <<key, value>> in enumeration order.       *)
(***************************************************************************)
Undefined == [kind |-> "undefined"]
Null == [kind |-> "null"]
Bool(b) == [kind |-> "boolean", b |-> b]
Num(n) == [kind |-> "number", n |-> n]
Str(s) == [kind |-> "string", s |-> s]
Obj(own, inherited) == [kind |-> "object", own |-> own, inherited |-> inherited]

\* typeof v
typeof(v) == IF v.kind = "null" THEN "object" ELSE v.kind

\* ToBoolean(v), the test `if (v)` and `a && b` apply
Truthy(v) ==
    CASE v.kind = "undefined" -> FALSE
      [] v.kind = "null" -> FALSE
      [] v.kind = "boolean" -> v.b
      [] v.kind = "number" -> v.n # 0
      [] v.kind = "string" -> v.s # <<>>
      [] OTHER -> TRUE

\* a === b on primitive values
StrictEquals(a, b) == a = b

\* data.hasOwnProperty(key)
hasOwnProperty(data, key) ==
    \E i \in 1..Len(data.own) : data.own[i][1] = key

\* The keys `for (let key in data)` visits: the own ones, then the inherited
\* ones no own property shadows; none for null.
ForInKeys(data) ==
    IF data.kind = "object"
    THEN [i \in 1..Len(data.own) |-> data.own[i][1]]
         \o SelectSeq([i \in 1..Len(data.inherited) |-> data.inherited[i][1]],
                      LAMBDA k : ~hasOwnProperty(data, k))
    ELSE <<>>

\* data[key]: the own property when there is one, else the inherited one
GetProperty(data, key) ==
    IF hasOwnProperty(data, key)
    THEN data.own[CHOOSE i \in 1..Len(data.own) : data.own[i][1] = key][2]
    ELSE data.inherited[CHOOSE i \in 1..Len(data.inherited) :
                            data.inherited[i][1] = key][2]

\* JSON.stringify of a string: quoted, with quote and backslash escaped
RECURSIVE JsonEscape(_)
JsonEscape(s) ==
    IF s = <<>> THEN <<>>
    ELSE (IF Head(s) \in {"\"", "\\"} THEN <<"\\", Head(s)>> ELSE <<Head(s)>>)
         \o JsonEscape(Tail(s))

JsonStringify(s) == <<"\"">> \o JsonEscape(s) \o <<"\"">>

(***************************************************************************)
(* enum HttpMethod, enum HttpContentType                                   *)
(***************************************************************************)
HttpMethod_Get == 0
HttpMethod_Post == 1
HttpMethod_Put == 2
HttpMethod_Delete == 3
FormUrlEncoded == 0
Json == 1

(***************************************************************************)
(* HttpHeaders and HttpParams, as the builder uses them: immutable         *)
(* collections whose append() returns a collection holding one more        *)
(* value; a name appended twice holds both values.                         *)
(***************************************************************************)
HeadersAppend(h, name, value) == Append(h, <<name, value>>)

ParamsAppend(p, key, value) == Append(p, <<key, value>>)

\* every value held under a header name, in the order appended
HeadersGetAll(h, name) ==
    LET hits == SelectSeq(h, LAMBDA e : e[1] = name)
    IN  [i \in 1..Len(hits) |-> hits[i][2]]

(***************************************************************************)
(* State.                                                                  *)
(***************************************************************************)
VARIABLES
    built,            \* a builder has been constructed
    created,          \* the factory call that constructed it
    httpMethod,       \* HttpRequest.httpMethod
    url,              \* HttpRequest.url
    body,             \* HttpRequest.body
    headers,          \* HttpRequest.headers
    httpContentType,  \* HttpRequest.httpContentType
    parameters,       \* HttpRequest.parameters
    nConfig,          \* header()/contentType()/param() calls made so far
    lastCall,         \* the latest header()/contentType()/param() call
    handles,          \* one record per handle() call
    calls             \* the calls made on the HttpClient, in order

vars == <<built, created, httpMethod, url, body, headers, httpContentType,
          parameters, nConfig, lastCall, handles, calls>>

request_fields == <<built, created, httpMethod, url, body>>

NoCall == [op |-> "none"]

Init ==
    /\ built = FALSE
    /\ created = NoCall
    /\ httpMethod = HttpMethod_Get
    /\ url = ""
    /\ body = Undefined
    /\ headers = <<>>
    /\ httpContentType = Undefined
    /\ parameters = <<>>
    /\ nConfig = 0
    /\ lastCall = NoCall
    /\ handles = <<>>
    /\ calls = <<>>

(***************************************************************************)
(* HttpRequest constructor and the HttpHelper factory.                     *)
(***************************************************************************)
HttpRequest(m, u, b) ==
    /\ built' = TRUE
    /\ httpMethod' = m
    /\ url' = u
    /\ body' = b
    /\ headers' = <<>>
    /\ parameters' = <<>>
    /\ httpContentType' = Undefined

get(u) ==
    /\ ~built
    /\ HttpRequest(HttpMethod_Get, u, Undefined)
    /\ created' = [op |-> "get", method |-> HttpMethod_Get, url |-> u,
                   body |-> Undefined]
    /\ UNCHANGED <<nConfig, lastCall, handles, calls>>

post(u, b) ==
    /\ ~built
    /\ HttpRequest(HttpMethod_Post, u, b)
    /\ created' = [op |-> "post", method |-> HttpMethod_Post, url |-> u,
                   body |-> b]
    /\ UNCHANGED <<nConfig, lastCall, handles, calls>>

put(u, b) ==
    /\ ~built
    /\ HttpRequest(HttpMethod_Put, u, b)
    /\ created' = [op |-> "put", method |-> HttpMethod_Put, url |-> u,
                   body |-> b]
    /\ UNCHANGED <<nConfig, lastCall, handles, calls>>

delete(u) ==
    /\ ~built
    /\ HttpRequest(HttpMethod_Delete, u, Undefined)
    /\ created' = [op |-> "delete", method |-> HttpMethod_Delete, url |-> u,
                   body |-> Undefined]
    /\ UNCHANGED <<nConfig, lastCall, handles, calls>>

\* new HttpRequest(m, u, b): the exported class constructed directly
construct(m, u, b) ==
    /\ ~built
    /\ HttpRequest(m, u, b)
    /\ created' = [op |-> "new", method |-> m, url |-> u, body |-> b]
    /\ UNCHANGED <<nConfig, lastCall, handles, calls>>

(***************************************************************************)
(* header(name, value)                                                     *)
(***************************************************************************)
\* header() on a builder that refuses changes once it has dispatched
headerUnlessSent(name, value) ==
    /\ built
    /\ nConfig < MaxConfigCalls
    /\ headers' = IF calls = <<>> THEN HeadersAppend(headers, name, value)
                  ELSE headers
    /\ nConfig' = nConfig + 1
    /\ lastCall' = [op |-> "header", name |-> name, value |-> value,
                    returns |-> "this"]
    /\ UNCHANGED <<request_fields, httpContentType, parameters, handles, calls>>

header(name, value) ==
    /\ built
    /\ nConfig < MaxConfigCalls
    /\ headers' = HeadersAppend(headers, name, value)
    /\ nConfig' = nConfig + 1
    /\ lastCall' = [op |-> "header", name |-> name, value |-> value,
                    returns |-> "this"]
    /\ UNCHANGED <<request_fields, httpContentType, parameters, handles, calls>>

(***************************************************************************)
(* contentType(contentType)                                                *)
(***************************************************************************)
contentType(ct) ==
    /\ built
    /\ nConfig < MaxConfigCalls
    /\ httpContentType' = ct
    /\ nConfig' = nConfig + 1
    /\ lastCall' = [op |-> "contentType", contentType |-> ct,
                    returns |-> "this"]
    /\ UNCHANGED <<request_fields, headers, parameters, handles, calls>>

(***************************************************************************)
(* param(data, value?)                                                     *)
(***************************************************************************)
\* the loop of the object branch, over the keys still to visit
RECURSIVE AppendOwnProperties(_, _, _)
AppendOwnProperties(p, data, keys) ==
    IF keys = <<>> THEN p
    ELSE AppendOwnProperties(
             IF hasOwnProperty(data, Head(keys))
             THEN ParamsAppend(p, Head(keys), GetProperty(data, Head(keys)))
             ELSE p,
             data, Tail(keys))

\* param() without the test of value
paramAppendedAnyValue(p, data, value) ==
    IF typeof(data) = "object"
    THEN AppendOwnProperties(p, data, ForInKeys(data))
    ELSE IF typeof(data) = "string"
         THEN ParamsAppend(p, data.s, value)
         ELSE p

\* this.parameters after param(data, value) on parameters p
paramAppended(p, data, value) ==
    IF typeof(data) = "object"
    THEN AppendOwnProperties(p, data, ForInKeys(data))
    ELSE IF typeof(data) = "string" /\ Truthy(value)
         THEN ParamsAppend(p, data.s, value)
         ELSE p

param(data, value) ==
    /\ built
    /\ nConfig < MaxConfigCalls
    /\ parameters' = paramAppended(parameters, data, value)
    /\ nConfig' = nConfig + 1
    /\ lastCall' = [op |-> "param", data |-> data, value |-> value,
                    returns |-> "this"]
    /\ UNCHANGED <<request_fields, headers, httpContentType, handles, calls>>

(***************************************************************************)
(* getContentType, setContentType, getBody, request                        *)
(***************************************************************************)
\* getContentType() with the two MIME strings exchanged
getContentTypeSwapped(ct) ==
    CASE StrictEquals(ct, Num(FormUrlEncoded)) -> "application/json"
      [] StrictEquals(ct, Num(Json)) -> "application/x-www-form-urlencoded"
      [] OTHER -> "application/json"

getContentType(ct) ==
    CASE StrictEquals(ct, Num(FormUrlEncoded)) -> "application/x-www-form-urlencoded"
      [] StrictEquals(ct, Num(Json)) -> "application/json"
      [] OTHER -> "application/json"

\* this.headers after setContentType() on headers h with tag ct
setContentType(h, ct) == HeadersAppend(h, "Content-Type", getContentType(ct))

\* getBody() testing the body's truth before its type
getBodyTruthy(b) ==
    IF Truthy(b) /\ typeof(b) = "string" THEN Str(JsonStringify(b.s)) ELSE b

getBody(b) ==
    IF typeof(b) = "string" THEN Str(JsonStringify(b.s)) ELSE b

\* request() whose default case is the last case instead of get
requestDefaultDelete(m, u, b, h, p) ==
    LET options == [headers |-> h, params |-> p]
        NoBody == [fn |-> "delete", url |-> u, hasBody |-> FALSE,
                   body |-> Undefined, options |-> options]
    IN  CASE m = HttpMethod_Get -> [NoBody EXCEPT !.fn = "get"]
          [] m = HttpMethod_Post ->
                 [fn |-> "post", url |-> u, hasBody |-> TRUE,
                  body |-> IF typeof(b) = "string" THEN Str(JsonStringify(b.s))
                           ELSE b,
                  options |-> options]
          [] m = HttpMethod_Put ->
                 [fn |-> "put", url |-> u, hasBody |-> TRUE,
                  body |-> IF typeof(b) = "string" THEN Str(JsonStringify(b.s))
                           ELSE b,
                  options |-> options]
          [] OTHER -> NoBody

\* the call request() makes on the HttpClient, given the finalized headers
request(m, u, b, h, p) ==
    LET options == [headers |-> h, params |-> p]
        NoBody == [fn |-> "get", url |-> u, hasBody |-> FALSE,
                   body |-> Undefined, options |-> options]
    IN  CASE m = HttpMethod_Get -> NoBody
          [] m = HttpMethod_Post ->
                 [fn |-> "post", url |-> u, hasBody |-> TRUE,
                  body |-> getBody(b), options |-> options]
          [] m = HttpMethod_Put ->
                 [fn |-> "put", url |-> u, hasBody |-> TRUE,
                  body |-> getBody(b), options |-> options]
          [] m = HttpMethod_Delete -> [NoBody EXCEPT !.fn = "delete"]
          [] OTHER -> NoBody

(***************************************************************************)
(* handle(handler, errorHandler?, beforeHandler?, completeHandler?)        *)
(* A callback argument is whether it was supplied; beforeHandler is also   *)
(* the value it returns when called.                                       *)
(***************************************************************************)
NoBefore == [supplied |-> FALSE, returns |-> Undefined]
Before(r) == [supplied |-> TRUE, returns |-> r]

\* the test comparing with true
cancelledOnTrue(beforeHandler) ==
    beforeHandler.supplied /\ StrictEquals(beforeHandler.returns, Bool(TRUE))

\* the test `beforeHandler && !beforeHandler()`
cancelledFalsy(beforeHandler) ==
    beforeHandler.supplied /\ ~Truthy(beforeHandler.returns)

\* `beforeHandler && beforeHandler() === false`
cancelled(beforeHandler) ==
    beforeHandler.supplied /\ StrictEquals(beforeHandler.returns, Bool(FALSE))

\* subscribe() given the error and complete callbacks in the other order
subscribeSwapped(handler, errorHandler, completeHandler) ==
    [next |-> IF handler THEN "onSuccess" ELSE "none",
     error |-> IF completeHandler THEN "onComplete" ELSE "none",
     complete |-> IF errorHandler THEN "onError" ELSE "none"]

\* the observer subscribe(handler, errorHandler, completeHandler) registers:
\* the callback each channel runs, "none" for one not supplied
subscribe(handler, errorHandler, completeHandler) ==
    [next |-> IF handler THEN "onSuccess" ELSE "none",
     error |-> IF errorHandler THEN "onError" ELSE "none",
     complete |-> IF completeHandler THEN "onComplete" ELSE "none"]

NoObserver == [next |-> "none", error |-> "none", complete |-> "none"]

handle(handler, errorHandler, beforeHandler, completeHandler) ==
    /\ built
    /\ Len(handles) < MaxHandles
    /\ LET called == IF beforeHandler.supplied THEN <<"onBefore">> ELSE <<>>
           supplied == [handler |-> handler, errorHandler |-> errorHandler,
                        beforeHandler |-> beforeHandler,
                        completeHandler |-> completeHandler]
       IN  IF cancelled(beforeHandler)
           THEN /\ handles' = Append(handles,
                        [args |-> supplied, dispatched |-> FALSE,
                         observer |-> NoObserver,
                         stream |-> "none", trace |-> called])
                /\ UNCHANGED <<headers, calls>>
           ELSE /\ headers' = setContentType(headers, httpContentType)
                /\ calls' = Append(calls,
                        [handle |-> Len(handles) + 1,
                         call |-> request(httpMethod, url, body, headers',
                                          parameters)])
                /\ handles' = Append(handles,
                        [args |-> supplied, dispatched |-> TRUE,
                         observer |-> subscribe(handler, errorHandler,
                                                completeHandler),
                         stream |-> "pending",
                         trace |-> called \o <<"client">>])
    /\ UNCHANGED <<request_fields, httpContentType, parameters, nConfig, lastCall>>

(***************************************************************************)
(* The Observable the HttpClient returned, notifying the observer that     *)
(* handle() subscribed: one value then completion, or an error.            *)
(***************************************************************************)
Notify(i, to, callback) ==
    /\ handles' = [handles EXCEPT
                     ![i].stream = to,
                     ![i].trace = IF callback # "none" THEN Append(@, callback)
                                  ELSE @]
    /\ UNCHANGED <<request_fields, headers, httpContentType, parameters,
                   nConfig, lastCall, calls>>

observerNext(i) ==
    /\ handles[i].stream = "pending"
    /\ Notify(i, "emitted", handles[i].observer.next)

observerComplete(i) ==
    /\ handles[i].stream = "emitted"
    /\ Notify(i, "completed", handles[i].observer.complete)

observerError(i) ==
    /\ handles[i].stream = "pending"
    /\ Notify(i, "errored", handles[i].observer.error)

(***************************************************************************)
(* Inputs.                                                                 *)
(***************************************************************************)
Urls == {"/a", "/b"}
Bodies == {Undefined, Null, Num(7), Obj(<<<<"k", Str(<<"v">>)>>>>, <<>>),
           Str(<<>>), Str(<<"x">>), Str(<<"a", "\"", "\\">>)}
UnknownMethods == {4}
HeaderNames == {"Content-Type", "X-Id"}
HeaderValues == {"text/plain"}
ContentTypes == {Num(FormUrlEncoded), Num(Json), Num(2)}
ParamObjects ==
    {Obj(<<<<"a", Str(<<"1">>)>>, <<"b", Str(<<"2">>)>>>>,
         <<<<"z", Str(<<"9">>)>>>>),
     Obj(<<>>, <<<<"z", Str(<<"9">>)>>>>),
     Null}
ParamPairs ==
    {<<Str(<<"c">>), Str(<<"3">>)>>, <<Str(<<"c">>), Str(<<>>)>>,
     <<Str(<<"d">>), Undefined>>, <<Num(5), Str(<<"3">>)>>,
     <<Bool(TRUE), Undefined>>, <<Undefined, Undefined>>}
BeforeHandlers ==
    {NoBefore, Before(Bool(FALSE)), Before(Bool(TRUE)), Before(Undefined),
     Before(Null), Before(Num(0))}

CallbackSets == {<<h, e, c>> : h \in BOOLEAN, e \in BOOLEAN, c \in BOOLEAN}
AllCallbacks == {<<TRUE, TRUE, TRUE>>}

Construct(in) ==
    \/ \E u \in in.urls : get(u)
    \/ \E u \in in.urls, b \in in.bodies : post(u, b)
    \/ \E u \in in.urls, b \in in.bodies : put(u, b)
    \/ \E u \in in.urls : delete(u)
    \/ \E m \in UnknownMethods, u \in in.urls, b \in in.bodies :
           construct(m, u, b)

Configure(in) ==
    \/ \E n \in in.names, v \in HeaderValues : header(n, v)
    \/ \E ct \in in.contentTypes : contentType(ct)
    \/ \E d \in in.objects : param(d, Undefined)
    \/ \E pr \in in.pairs : param(pr[1], pr[2])

Send(in) ==
    \E bh \in in.befores, cb \in in.callbacks : handle(cb[1], cb[2], bh, cb[3])

Respond ==
    \E i \in 1..Len(handles) :
        \/ observerNext(i)
        \/ observerComplete(i)
        \/ observerError(i)

ConstructPost(in) == \E u \in in.urls, b \in in.bodies : post(u, b)

\* One POST builder configured and sent in every way.
LifecycleInputs ==
    [urls |-> {"/a"}, bodies |-> {Str(<<"x">>)}, names |-> HeaderNames,
     contentTypes |-> ContentTypes,
     objects |-> {Obj(<<<<"a", Str(<<"1">>)>>>>, <<>>)},
     pairs |-> {<<Str(<<"c">>), Str(<<"3">>)>>},
     befores |-> BeforeHandlers, callbacks |-> AllCallbacks]

\* Every shape of param() argument.
ParamInputs ==
    [urls |-> {"/a"}, bodies |-> {Undefined}, names |-> {"X-Id"},
     contentTypes |-> {Num(FormUrlEncoded)},
     objects |-> ParamObjects, pairs |-> ParamPairs,
     befores |-> {NoBefore}, callbacks |-> AllCallbacks]

\* Every builder the factory makes.
DispatchInputs ==
    [urls |-> Urls, bodies |-> Bodies, names |-> {"X-Id"},
     contentTypes |-> {Num(FormUrlEncoded)},
     objects |-> {Obj(<<<<"a", Str(<<"1">>)>>>>, <<>>)},
     pairs |-> {<<Str(<<"c">>), Str(<<"3">>)>>},
     befores |-> {NoBefore, Before(Bool(FALSE))}, callbacks |-> AllCallbacks]

\* Every set of callbacks handle() may be given.
CallbackInputs ==
    [urls |-> {"/a"}, bodies |-> {Undefined}, names |-> {"X-Id"},
     contentTypes |-> {Num(FormUrlEncoded)},
     objects |-> {Obj(<<<<"a", Str(<<"1">>)>>>>, <<>>)},
     pairs |-> {<<Str(<<"c">>), Str(<<"3">>)>>},
     befores |-> {NoBefore, Before(Bool(FALSE))},
     callbacks |-> CallbackSets]

\* The builder and the client calls it makes.
Next ==
    \/ ConstructPost(LifecycleInputs)
    \/ Configure(LifecycleInputs)
    \/ Send(LifecycleInputs)

NextParam ==
    \/ ConstructPost(ParamInputs)
    \/ Configure(ParamInputs)
    \/ Send(ParamInputs)

NextDispatch ==
    \/ Construct(DispatchInputs)
    \/ Configure(DispatchInputs)
    \/ Send(DispatchInputs)

\* The builder, the client calls and the notifications that follow them.
NextCallback ==
    \/ ConstructPost(CallbackInputs)
    \/ \E n \in CallbackInputs.names, v \in HeaderValues : header(n, v)
    \/ Send(CallbackInputs)
    \/ Respond

Spec == Init /\ [][Next]_vars
SpecParam == Init /\ [][NextParam]_vars
SpecDispatch == Init /\ [][NextDispatch]_vars
SpecCallback == Init /\ [][NextCallback]_vars

(***************************************************************************)
(* Properties.                                                             *)
(***************************************************************************)
Last(s) == s[Len(s)]
Count(s, e) == Cardinality({k \in 1..Len(s) : s[k] = e})
IsPrefix(a, b) == Len(a) <= Len(b) /\ SubSeq(b, 1, Len(a)) = a

\* the client calls made for the i-th handle() call
CallsOf(i) == {k \in 1..Len(calls) : calls[k].handle = i}
\* the Content-Type values of the k-th client call
ContentTypeOf(k) == HeadersGetAll(calls[k].call.options.headers, "Content-Type")
\* the i-th handle() call was given an onBefore that returned exactly false
ReturnedFalse(i) ==
    /\ handles[i].args.beforeHandler.supplied
    /\ handles[i].args.beforeHandler.returns = Bool(FALSE)

\* a step that is a header()/contentType()/param() call, a handle() call,
\* a call on the client
ConfigStep == nConfig' = nConfig + 1
HandleStep == Len(handles') = Len(handles) + 1
DispatchStep == Len(calls') > Len(calls)

(* C1: a handle() call whose onBefore returned exactly false makes no call
   on the HTTP client, and none of onSuccess, onError, onComplete ever runs
   for it, whatever header/contentType/param calls were made before. *)
C1_VetoedHandleIsSilent ==
    \A i \in 1..Len(handles) :
        ReturnedFalse(i) =>
            /\ CallsOf(i) = {}
            /\ \A k \in 1..Len(handles[i].trace) :
                   handles[i].trace[k] \notin
                       {"client", "onSuccess", "onError", "onComplete"}

\* a handle() with all callbacks was vetoed after a header() call and after
\* an earlier handle() of the same builder ran to completion
C1_Witness ==
    /\ Len(handles) = 2
    /\ ReturnedFalse(2)
    /\ handles[2].args.handler /\ handles[2].args.errorHandler
    /\ handles[2].args.completeHandler
    /\ handles[1].stream = "completed"
    /\ Len(calls) = 1
    /\ Len(calls[1].call.options.headers) = 2

(* C2: a handle() call with onBefore omitted, or with an onBefore returning
   anything but false (true, undefined, null, 0), makes exactly one call on
   the HTTP client, and a supplied onBefore runs once, before that call. *)
C2_NonFalseDispatchesOnce ==
    \A i \in 1..Len(handles) :
        ~ReturnedFalse(i) =>
            /\ Cardinality(CallsOf(i)) = 1
            /\ Count(handles[i].trace, "client") = 1
            /\ IF handles[i].args.beforeHandler.supplied
               THEN /\ Count(handles[i].trace, "onBefore") = 1
                    /\ handles[i].trace[1] = "onBefore"
                    /\ handles[i].trace[2] = "client"
               ELSE /\ Count(handles[i].trace, "onBefore") = 0
                    /\ handles[i].trace[1] = "client"

\* one handle() had an onBefore returning 0, another had none; both called
\* the client
C2_Witness ==
    /\ Len(handles) = 2
    /\ handles[1].args.beforeHandler = Before(Num(0))
    /\ handles[2].args.beforeHandler = NoBefore
    /\ Len(calls) = 2

(* C3: the Content-Type value handle() puts on the request is the one mapped
   from the tag in force at that handle(): the form-urlencoded MIME string
   for FormUrlEncoded, application/json for Json, for a tag never set and
   for an unrecognized tag; contentType() replaces the tag, and nothing else
   changes it. *)
C3_ExpectedMime(tag) ==
    IF tag = Num(FormUrlEncoded) THEN "application/x-www-form-urlencoded"
    ELSE "application/json"

C3_Step ==
    /\ (ConfigStep /\ lastCall'.op = "contentType")
           => httpContentType' = lastCall'.contentType
    /\ ((ConfigStep /\ lastCall'.op # "contentType") \/ HandleStep)
           => httpContentType' = httpContentType
    /\ (~built /\ built') => httpContentType' = Undefined
    /\ DispatchStep
           => Last(HeadersGetAll(Last(calls').call.options.headers,
                                 "Content-Type"))
                  = C3_ExpectedMime(httpContentType)

C3_ContentTypeFollowsTag == [][C3_Step]_vars

\* contentType(FormUrlEncoded), handle(), contentType(Json), handle(): the
\* first request got the form MIME string, the second got application/json
C3_Witness ==
    /\ Len(calls) = 2
    /\ nConfig = 2
    /\ lastCall = [op |-> "contentType", contentType |-> Num(Json),
                   returns |-> "this"]
    /\ ContentTypeOf(1) = <<"application/x-www-form-urlencoded">>
    /\ Last(ContentTypeOf(2)) = "application/json"

(* C4: the builder a factory operation returns holds the method of that
   operation and the URL and body it was given, no later call changes them,
   and a dispatching handle() calls the client's get, post, put or delete
   accordingly with that URL, with a body for POST and PUT only, and with
   the accumulated headers and parameters as options; a method outside the
   four calls the client's get. *)
C4_ExpectedMethod(op, m) ==
    CASE op = "get" -> HttpMethod_Get
      [] op = "post" -> HttpMethod_Post
      [] op = "put" -> HttpMethod_Put
      [] op = "delete" -> HttpMethod_Delete
      [] OTHER -> m

C4_ExpectedFn(op) == IF op \in {"get", "post", "put", "delete"} THEN op ELSE "get"

C4_Step ==
    /\ (~built /\ built')
           => /\ httpMethod' = C4_ExpectedMethod(created'.op, created'.method)
              /\ url' = created'.url
              /\ body' = created'.body
              /\ created'.op \in {"get", "delete"} => body' = Undefined
    /\ built
           => /\ built'
              /\ UNCHANGED <<created, httpMethod, url, body>>
    /\ DispatchStep
           => LET c == Last(calls').call
              IN  /\ Len(calls') = Len(calls) + 1
                  /\ c.fn = C4_ExpectedFn(created.op)
                  /\ c.url = created.url
                  /\ c.hasBody = (created.op \in {"post", "put"})
                  /\ ~c.hasBody => c.body = Undefined
                  /\ IsPrefix(headers, c.options.headers)
                  /\ c.options.headers = headers'
                  /\ c.options.params = parameters

C4_BoundRequestIsDispatched == [][C4_Step]_vars

\* a builder constructed with a method outside the enum, given a header and
\* a parameter, called the client's get without a body
C4_Witness ==
    /\ created.op = "new"
    /\ created.url = "/b"
    /\ created.body = Str(<<"x">>)
    /\ Len(calls) = 1
    /\ calls[1].call.fn = "get"
    /\ calls[1].call.url = "/b"
    /\ ~calls[1].call.hasBody
    /\ Len(calls[1].call.options.headers) = 2
    /\ Len(calls[1].call.options.params) = 1

(* C5: param(name, value) with any two strings appends exactly the pair
   (name, value); param(obj) with an object appends one parameter per own
   enumerable property and none for inherited ones; the parameters already
   there are kept in order, and headers, tag, method, URL and body are
   unchanged. *)
C5_Step ==
    (ConfigStep /\ lastCall'.op = "param")
        => /\ (lastCall'.data.kind = "string" /\ lastCall'.value.kind = "string")
                  => parameters' = Append(parameters,
                                          <<lastCall'.data.s, lastCall'.value>>)
           /\ lastCall'.data.kind = "object"
                  => parameters' = parameters \o lastCall'.data.own
           /\ UNCHANGED <<headers, httpContentType, httpMethod, url, body>>

C5_ParamAppends == [][C5_Step]_vars

(* C6: param() with a single string and no value, or with a first argument
   that is a number, a boolean or undefined, returns the builder and leaves
   the parameters and every other field of the builder as they were. *)
C6_Step ==
    (/\ ConfigStep
     /\ lastCall'.op = "param"
     /\ \/ lastCall'.data.kind = "string" /\ lastCall'.value = Undefined
        \/ lastCall'.data.kind \in {"number", "boolean", "undefined"})
        => /\ parameters' = parameters
           /\ lastCall'.returns = "this"
           /\ UNCHANGED <<headers, httpContentType, built, httpMethod, url,
                          body, handles, calls>>

C6_MalformedParamIsNoOp == [][C6_Step]_vars

\* param("d") was called on a builder that already held a parameter, which
\* is all it holds now
C6_Witness ==
    /\ nConfig = 2
    /\ lastCall = [op |-> "param", data |-> Str(<<"d">>), value |-> Undefined,
                   returns |-> "this"]
    /\ parameters = <<<<<<"c">>, Str(<<"3">>)>>>>

(* C7: for a POST or PUT builder the body handed to the client is the
   JSON-quoted form of the builder's body when that body is a string, the
   empty string included, and the body itself otherwise. *)
C7_BodyIsQuotedIffString ==
    \A k \in 1..Len(calls) :
        created.op \in {"post", "put"} =>
            LET sent == calls[k].call.body
            IN  /\ IF created.body.kind = "string"
                   THEN sent = Str(JsonStringify(created.body.s))
                   ELSE sent = created.body
                /\ created.body = Str(<<>>) => sent = Str(<<"\"", "\"">>)
                /\ created.body = Str(<<"x">>) => sent = Str(<<"\"", "x", "\"">>)
                /\ created.body = Str(<<"a", "\"", "\\">>)
                       => sent = Str(<<"\"", "a", "\\", "\"", "\\", "\\", "\"">>)

\* a PUT builder with the empty string as body sent the two quotes
C7_Witness ==
    /\ created.op = "put"
    /\ created.body = Str(<<>>)
    /\ Len(calls) >= 1
    /\ calls[1].call.fn = "put"
    /\ calls[1].call.body = Str(<<"\"", "\"">>)

(* C8: for each dispatched request, onSuccess and onError never both run,
   onComplete runs at most once and only as the last notification of a
   stream that has ended, a callback that was not supplied never runs, and
   each supplied callback runs on its own channel whether or not the others
   were supplied. *)
C8_CallbackChannels ==
    \A i \in 1..Len(handles) :
        LET h == handles[i]
            t == h.trace
        IN  /\ ~(Count(t, "onSuccess") > 0 /\ Count(t, "onError") > 0)
            /\ Count(t, "onComplete") <= 1
            /\ Count(t, "onComplete") = 1
                   => /\ h.stream \in {"completed", "errored"}
                      /\ Last(t) = "onComplete"
            /\ ~h.args.handler => Count(t, "onSuccess") = 0
            /\ ~h.args.errorHandler => Count(t, "onError") = 0
            /\ ~h.args.completeHandler => Count(t, "onComplete") = 0
            /\ (h.args.handler /\ h.stream \in {"emitted", "completed"})
                   => Count(t, "onSuccess") = 1
            /\ (h.args.errorHandler /\ h.stream = "errored")
                   => Count(t, "onError") = 1
            /\ (h.args.completeHandler /\ h.stream = "completed")
                   => Count(t, "onComplete") = 1

\* one request given only onError failed and ran it; another given only
\* onComplete completed and ran it
C8_Witness ==
    /\ Len(handles) = 2
    /\ handles[1].args.errorHandler
    /\ ~handles[1].args.handler /\ ~handles[1].args.completeHandler
    /\ handles[1].stream = "errored"
    /\ handles[1].trace = <<"client", "onError">>
    /\ handles[2].args.completeHandler
    /\ ~handles[2].args.handler /\ ~handles[2].args.errorHandler
    /\ handles[2].stream = "completed"
    /\ handles[2].trace = <<"client", "onComplete">>

(* C9, as claimed: once a handle() call has dispatched, no later header(),
   contentType() or param() call changes the builder's headers, parameters
   or tag, and the builder dispatches at most one request. *)
C9_OriginalStep ==
    /\ (calls # <<>> /\ ConfigStep)
           => UNCHANGED <<headers, parameters, httpContentType>>
    /\ Len(calls') <= 1

C9_SentBuilderIsConsumed == [][C9_OriginalStep]_vars

(* C9, amended: the builder has no Sent state.  Before and after a dispatch
   alike, header() appends its header, contentType() replaces the tag and
   param() appends its parameters, and every handle() call that onBefore
   does not veto dispatches one more request. *)
C9_ExpectedParams(data, value) ==
    IF data.kind = "object" THEN data.own
    ELSE IF data.kind = "string" /\ value.kind = "string" /\ value.s # <<>>
         THEN <<<<data.s, value>>>>
         ELSE <<>>

C9_Step ==
    /\ (ConfigStep /\ lastCall'.op = "header")
           => /\ headers' = Append(headers, <<lastCall'.name, lastCall'.value>>)
              /\ UNCHANGED <<parameters, httpContentType>>
    /\ (ConfigStep /\ lastCall'.op = "contentType")
           => /\ httpContentType' = lastCall'.contentType
              /\ UNCHANGED <<headers, parameters>>
    /\ (ConfigStep /\ lastCall'.op = "param")
           => /\ parameters' = parameters
                      \o C9_ExpectedParams(lastCall'.data, lastCall'.value)
              /\ UNCHANGED <<headers, httpContentType>>
    /\ (HandleStep /\ ~(/\ Last(handles').args.beforeHandler.supplied
                         /\ Last(handles').args.beforeHandler.returns
                                = Bool(FALSE)))
           => Len(calls') = Len(calls) + 1

C9_BuilderStaysConfigurable == [][C9_Step]_vars

\* the builder dispatched, was given a header, and dispatched again with it
C9_Witness ==
    /\ Len(calls) = 2
    /\ calls[1].call.options.headers = <<<<"Content-Type", "application/json">>>>
    /\ calls[2].call.options.headers =
           <<<<"Content-Type", "application/json">>, <<"X-Id", "text/plain">>,
             <<"Content-Type", "application/json">>>>

(* C10: every dispatched request carries exactly one Content-Type value,
   the MIME string mapped from the tag, also when the caller added a
   Content-Type through header() and when handle() runs again on the same
   builder; a vetoed handle() adds no Content-Type header. *)
C10_Step ==
    /\ DispatchStep
           => HeadersGetAll(Last(calls').call.options.headers, "Content-Type")
                  = <<C3_ExpectedMime(httpContentType)>>
    /\ (HandleStep /\ ~DispatchStep) => headers' = headers

C10_SingleContentType == [][C10_Step]_vars

====
